---- MODULE Spec2Model ----
(***************************************************************************)
(* Commitment microservice: the Customer / Commitment / PurchaseInfo       *)
(* entities of src/src/commitment.rs and the request handlers of           *)
(* src/src/main.rs that run them against the locked customer collection.   *)
(*                                                                         *)
(* Encodings                                                               *)
(*  - Uuid::new_v4() is a fresh number taken from next_uuid (v4 ids are    *)
(*    taken to be collision free); ids supplied by callers are drawn from  *)
(*    the same range so that they may or may not name something.           *)
(*  - Utc::now() is the variable now, counted in ticks; a calendar year    *)
(*    has TicksPerYear ticks.                                              *)
(*  - A u32 value v is written as the integer n of least absolute value    *)
(*    with n = v (mod 2^32): the wrapped result 2^32 - k of a subtraction  *)
(*    in a build without overflow checks is written -k.  (TLC integers     *)
(*    are 32 bits wide, 2^32 itself cannot be written.)                    *)
(*  - The timestamps created_at / crated_at are written once from the     *)
(*    clock and read by nothing; they are left out of the records.         *)
(*  - overflow_checks is the build profile: TRUE panics on u32 overflow    *)
(*    (cargo's dev profile), FALSE wraps (release profile).                *)
(***************************************************************************)
EXTENDS Integers, Sequences, FiniteSets, TLC

\* ---------------------------------------------------------------- bounds
MaxNow == 4
MaxUuid == 2
MaxTasks == 2
MaxWrapped == 100
MaxDiscountInput == 9

\* length of a calendar year in clock ticks
TicksPerYear == 3

\* ---------------------------------------------------------------- inputs
CustomerIds == {1}
Targets == {1000}
Discounts == {6, 7}
WideDiscounts == 0..MaxDiscountInput
Users == {7}
PurchaseRequests ==
  {[purchase_id |-> 101, total_net |-> 100, total_gross |-> 127, applied_discount |-> 2],
   [purchase_id |-> 102, total_net |-> 80, total_gross |-> 100, applied_discount |-> 6]}
PurchaseIds == {q.purchase_id : q \in PurchaseRequests}
CommitmentIdInputs == 1..MaxUuid
Malformed == 0
MaxChainUuid == MaxUuid + 1
ChainIdInputs == 1..MaxChainUuid
ChainPurchaseRequests ==
  {[purchase_id |-> 101, total_net |-> 100, total_gross |-> 127, applied_discount |-> 2]}
Tasks == 1..MaxTasks

\* inputs of the concurrent service runs
SvcCustomerIds == {1}
SvcDiscounts == {6, 7}
SvcPurchaseRequests ==
  {[purchase_id |-> 101, total_net |-> 100, total_gross |-> 127, applied_discount |-> 2]}

VARIABLES commitments, now, next_uuid, overflow_checks, tasks, last

vars == <<commitments, now, next_uuid, overflow_checks, tasks, last>>

\* ------------------------------------------------------------- calendar
\* Utc::today().year()
YearOf(t) == t \div TicksPerYear

\* NaiveDate::from_ymd(y, 1, 1).and_hms(0, 0, 0)
StartOfYear(y) == y * TicksPerYear

\* ---------------------------------------------------------- PurchaseInfo
PurchaseInfoNew(purchase_id, total_net, total_gross, applied_discount) ==
  [purchase_id |-> purchase_id, total_net |-> total_net,
   total_gross |-> total_gross, applied_discount |-> applied_discount,
   removed |-> FALSE]

\* PurchaseInfo::set_removed turning the flag over
set_removed_toggles(pi) == [pi EXCEPT !.removed = ~@]

set_removed(pi) == [pi EXCEPT !.removed = TRUE]

\* ------------------------------------------------------------ Commitment
Valid == [kind |-> "Valid"]
Withdrawn(successor) == [kind |-> "Withdrawn", successor |-> successor]

ValidationMsg == "A kedvezmeny merteke 0-6% kozott lehet!"
DuplicateMsg == "A megadott vasarlas mar szerepel a vasarlasi elozmenyek kozott!"
PurchaseNotFoundMsg == "A megadott vasarlasi azonosito nem szerepel a kommitmentben"
CommitmentNotFoundMsg == "A megadott commitment ID nem talalhato a vasarlo alatt."
NotUnderCustomerMsg == "A megadott commitment ID nem szerepel a vasarlonal!"
SupersededMsg == "A megadott commitment helyett mar van ujabb."
NoActiveMsg == "A megadott vasarlonak nincs aktiv commitmentje, igy a vasarlas nem adhato hozza."
Panic == "panic: attempt to subtract with overflow"

\* Commitment::new with the bound of the discount off by one
CommitmentNew_below6(target, discount_percentage, created_by, t, uuid) ==
  IF discount_percentage < 6
  THEN [res |-> "Ok",
        val |-> <<[commitment_id |-> uuid,
                   target |-> target,
                   discount_percentage |-> discount_percentage,
                   valid_till |-> StartOfYear(YearOf(t) + 1),
                   balance |-> 0,
                   purchase_log |-> <<>>,
                   status |-> Valid,
                   created_by |-> created_by]>>]
  ELSE [res |-> ValidationMsg, val |-> <<>>]

\* Commitment::new; uuid is the value Uuid::new_v4() returns, t is the clock
CommitmentNew(target, discount_percentage, created_by, t, uuid) ==
  IF discount_percentage <= 6
  THEN [res |-> "Ok",
        val |-> <<[commitment_id |-> uuid,
                   target |-> target,
                   discount_percentage |-> discount_percentage,
                   valid_till |-> StartOfYear(YearOf(t) + 1),
                   balance |-> 0,
                   purchase_log |-> <<>>,
                   status |-> Valid,
                   created_by |-> created_by]>>]
  ELSE [res |-> ValidationMsg, val |-> <<>>]

\* Commitment::is_active looking at the date only
is_active_by_date(c, t) == c.valid_till >= t

\* Commitment::is_active
is_active(c, t) ==
  IF c.status.kind = "Valid" THEN c.valid_till >= t ELSE FALSE

\* Commitment::withdraw marking the commitment withdrawn before the new one
\* is validated
withdraw_marks_first(self, new_target, new_discount_percentage, created_by, t, uuid) ==
  LET r == CommitmentNew(new_target, new_discount_percentage, created_by, t, uuid)
      marked == [self EXCEPT !.status = Withdrawn(uuid)]
  IN IF r.res # "Ok"
     THEN [res |-> r.res, self |-> marked, val |-> <<>>]
     ELSE [res |-> "Ok", self |-> marked,
           val |-> <<[r.val[1] EXCEPT !.balance = self.balance,
                                      !.purchase_log = self.purchase_log,
                                      !.created_by = created_by]>>]

\* Commitment::withdraw leaving the status of the commitment as it is
withdraw_keeps_status(self, new_target, new_discount_percentage, created_by, t, uuid) ==
  LET r == CommitmentNew(new_target, new_discount_percentage, created_by, t, uuid)
  IN IF r.res # "Ok"
     THEN [res |-> r.res, self |-> self, val |-> <<>>]
     ELSE [res |-> "Ok", self |-> self,
           val |-> <<[r.val[1] EXCEPT !.balance = self.balance,
                                      !.purchase_log = self.purchase_log,
                                      !.created_by = created_by]>>]

\* Commitment::withdraw carrying the balance but not the history forward
withdraw_without_history(self, new_target, new_discount_percentage, created_by, t, uuid) ==
  LET r == CommitmentNew(new_target, new_discount_percentage, created_by, t, uuid)
  IN IF r.res # "Ok"
     THEN [res |-> r.res, self |-> self, val |-> <<>>]
     ELSE [res |-> "Ok",
           self |-> [self EXCEPT !.status = Withdrawn(r.val[1].commitment_id)],
           val |-> <<[r.val[1] EXCEPT !.balance = self.balance,
                                      !.created_by = created_by]>>]

\* Commitment::withdraw with a successor that runs out when self does
withdraw_inherits_valid_till(self, new_target, new_discount_percentage, created_by, t, uuid) ==
  LET r == CommitmentNew(new_target, new_discount_percentage, created_by, t, uuid)
  IN IF r.res # "Ok"
     THEN [res |-> r.res, self |-> self, val |-> <<>>]
     ELSE LET new_commitment == r.val[1]
          IN [res |-> "Ok",
              self |-> [self EXCEPT !.status = Withdrawn(new_commitment.commitment_id)],
              val |-> <<[new_commitment EXCEPT
                           !.valid_till = self.valid_till,
                           !.balance = self.balance,
                           !.purchase_log = self.purchase_log,
                           !.created_by = created_by]>>]

\* Commitment::withdraw naming as successor an id that the commitment it
\* returns does not have
withdraw_names_other_id(self, new_target, new_discount_percentage, created_by, t, uuid) ==
  LET r == CommitmentNew(new_target, new_discount_percentage, created_by, t, uuid)
  IN IF r.res # "Ok"
     THEN [res |-> r.res, self |-> self, val |-> <<>>]
     ELSE LET new_commitment == r.val[1]
          IN [res |-> "Ok",
              self |-> [self EXCEPT !.status = Withdrawn(new_commitment.commitment_id + 1)],
              val |-> <<[new_commitment EXCEPT
                           !.balance = self.balance,
                           !.purchase_log = self.purchase_log,
                           !.created_by = created_by]>>]

\* Commitment::withdraw: self is the commitment after the call, val the
\* successor it returns
withdraw(self, new_target, new_discount_percentage, created_by, t, uuid) ==
  LET r == CommitmentNew(new_target, new_discount_percentage, created_by, t, uuid)
  IN IF r.res # "Ok"
     THEN [res |-> r.res, self |-> self, val |-> <<>>]
     ELSE LET new_commitment == r.val[1]
          IN [res |-> "Ok",
              self |-> [self EXCEPT !.status = Withdrawn(new_commitment.commitment_id)],
              val |-> <<[new_commitment EXCEPT
                           !.balance = self.balance,
                           !.purchase_log = self.purchase_log,
                           !.created_by = created_by]>>]

\* index of the first ledger entry with the id, 0 when there is none
FindPurchase(log, purchase_id) ==
  IF \E i \in 1..Len(log) : log[i].purchase_id = purchase_id
  THEN CHOOSE i \in 1..Len(log) :
         /\ log[i].purchase_id = purchase_id
         /\ \A j \in 1..(i-1) : log[j].purchase_id # purchase_id
  ELSE 0

\* Commitment::add_purchase looking for the id among the entries that are
\* not flagged removed only
CommitmentAddPurchase_skips_removed(self, purchase) ==
  IF \E i \in 1..Len(self.purchase_log) :
        /\ self.purchase_log[i].purchase_id = purchase.purchase_id
        /\ ~self.purchase_log[i].removed
  THEN [res |-> DuplicateMsg, self |-> self]
  ELSE [res |-> "Ok",
        self |-> [self EXCEPT !.balance = @ + purchase.total_gross,
                              !.purchase_log = Append(@, purchase)]]

\* Commitment::add_purchase
CommitmentAddPurchase(self, purchase) ==
  IF \E i \in 1..Len(self.purchase_log) :
        self.purchase_log[i].purchase_id = purchase.purchase_id
  THEN [res |-> DuplicateMsg, self |-> self]
  ELSE [res |-> "Ok",
        self |-> [self EXCEPT !.balance = @ + purchase.total_gross,
                              !.purchase_log = Append(@, purchase)]]

\* Commitment::remove_purchase taking the net amount off the balance
CommitmentRemovePurchase_net(self, purchase_id, checks) ==
  LET i == FindPurchase(self.purchase_log, purchase_id)
  IN IF i = 0
     THEN [res |-> PurchaseNotFoundMsg, self |-> self]
     ELSE LET flagged == [self EXCEPT !.purchase_log[i] = set_removed(@)]
              net == self.purchase_log[i].total_net
          IN IF checks /\ self.balance < net
             THEN [res |-> Panic, self |-> flagged]
             ELSE [res |-> "Ok", self |-> [flagged EXCEPT !.balance = @ - net]]

\* Commitment::remove_purchase; checks is the build's overflow-checks flag
CommitmentRemovePurchase(self, purchase_id, checks) ==
  LET i == FindPurchase(self.purchase_log, purchase_id)
  IN IF i = 0
     THEN [res |-> PurchaseNotFoundMsg, self |-> self]
     ELSE LET flagged == [self EXCEPT !.purchase_log[i] = set_removed(@)]
              gross == self.purchase_log[i].total_gross
          IN IF checks /\ self.balance < gross
             THEN [res |-> Panic, self |-> flagged]
             ELSE [res |-> "Ok", self |-> [flagged EXCEPT !.balance = @ - gross]]

\* -------------------------------------------------------------- Customer
\* Customer::new
CustomerNew(customer_id, target, discount_percentage, created_by, t, uuid) ==
  LET r == CommitmentNew(target, discount_percentage, created_by, t, uuid)
  IN IF r.res # "Ok"
     THEN [res |-> r.res, val |-> <<>>]
     ELSE [res |-> "Ok",
           val |-> <<[customer_id |-> customer_id,
                      commitments |-> <<r.val[1]>>,
                      created_by |-> created_by]>>]

\* Customer::get_active_commitment taking the last commitment for active
\* whenever it has not been withdrawn
get_active_commitment_undated(self, t) ==
  IF Len(self.commitments) > 0
  THEN IF self.commitments[Len(self.commitments)].status.kind = "Valid"
       THEN Len(self.commitments)
       ELSE 0
  ELSE 0

\* Customer::get_active_commitment: position of the active commitment in
\* self.commitments, 0 for None
get_active_commitment(self, t) ==
  IF Len(self.commitments) > 0
  THEN IF is_active(self.commitments[Len(self.commitments)], t)
       THEN Len(self.commitments)
       ELSE 0
  ELSE 0

\* Customer::has_commitment
has_commitment(self, commitment_id) ==
  \E i \in 1..Len(self.commitments) :
     self.commitments[i].commitment_id = commitment_id

\* Customer::get_commitment: position of the first commitment with the id,
\* 0 for Err
get_commitment(self, commitment_id) ==
  IF has_commitment(self, commitment_id)
  THEN CHOOSE i \in 1..Len(self.commitments) :
         /\ self.commitments[i].commitment_id = commitment_id
         /\ \A j \in 1..(i-1) : self.commitments[j].commitment_id # commitment_id
  ELSE 0

\* Customer::add_purchase without the membership test
CustomerAddPurchase_no_membership(self, commitment_id, purchase, t) ==
  LET a == get_active_commitment(self, t)
  IN IF a # 0
     THEN IF self.commitments[a].commitment_id = commitment_id
          THEN [res |-> "Ok",
                self |-> [self EXCEPT !.commitments[a] =
                            CommitmentAddPurchase(@, purchase).self]]
          ELSE [res |-> SupersededMsg, self |-> self]
     ELSE [res |-> NoActiveMsg, self |-> self]

\* Customer::add_purchase putting the purchase into the commitment the call
\* names, whether it is the active one or not
CustomerAddPurchase_into_named(self, commitment_id, purchase, t) ==
  IF ~has_commitment(self, commitment_id)
  THEN [res |-> NotUnderCustomerMsg, self |-> self]
  ELSE [res |-> "Ok",
        self |-> [self EXCEPT !.commitments[get_commitment(self, commitment_id)] =
                    CommitmentAddPurchase(@, purchase).self]]

\* Customer::add_purchase
CustomerAddPurchase(self, commitment_id, purchase, t) ==
  IF ~has_commitment(self, commitment_id)
  THEN [res |-> NotUnderCustomerMsg, self |-> self]
  ELSE LET a == get_active_commitment(self, t)
       IN IF a # 0
          THEN IF self.commitments[a].commitment_id = commitment_id
               \* let _ = active_commitment.add_purchase(purchase): the
               \* result is dropped, the call answers Ok(self)
               THEN [res |-> "Ok",
                     self |-> [self EXCEPT !.commitments[a] =
                                 CommitmentAddPurchase(@, purchase).self]]
               ELSE [res |-> SupersededMsg, self |-> self]
          ELSE [res |-> NoActiveMsg, self |-> self]

\* Customer::remove_purchase; path lists the positions the recursion visits
RECURSIVE CustomerRemovePurchase(_, _, _, _)
CustomerRemovePurchase(self, commitment_id, purchase_id, checks) ==
  LET i == get_commitment(self, commitment_id)
  IN IF i = 0
     THEN [res |-> CommitmentNotFoundMsg, self |-> self, path |-> <<>>]
     ELSE LET commitment == self.commitments[i]
              r == CommitmentRemovePurchase(commitment, purchase_id, checks)
              after == [self EXCEPT !.commitments[i] = r.self]
          IN IF commitment.status.kind = "Valid"
             THEN [res |-> r.res, self |-> after, path |-> <<i>>]
             ELSE IF r.res = Panic
                  THEN [res |-> Panic, self |-> after, path |-> <<i>>]
                  ELSE LET rest == CustomerRemovePurchase(after,
                                     commitment.status.successor, purchase_id, checks)
                       IN [res |-> rest.res, self |-> rest.self,
                           path |-> <<i>> \o rest.path]

\* Customer::add_commitment
CustomerAddCommitment(self, new_target, new_discount_percentage, created_by, t, uuid) ==
  LET a == get_active_commitment(self, t)
  IN IF a # 0
     THEN LET w == withdraw(self.commitments[a], new_target,
                            new_discount_percentage, created_by, t, uuid)
          IN IF w.res # "Ok"
             \* withdraw works on &mut: what it did to the commitment before
             \* failing stays
             THEN [res |-> w.res, self |-> [self EXCEPT !.commitments[a] = w.self]]
             ELSE [res |-> "Ok",
                   self |-> [self EXCEPT
                               !.commitments = Append([@ EXCEPT ![a] = w.self], w.val[1])]]
     ELSE LET r == CommitmentNew(new_target, new_discount_percentage, created_by, t, uuid)
          IN IF r.res # "Ok"
             THEN [res |-> r.res, self |-> self]
             ELSE [res |-> "Ok",
                   self |-> [self EXCEPT !.commitments = Append(@, r.val[1])]]

\* ------------------------------------------------------ CommitmentService
CustomerUnknownMsg == "customer id not found"
IdTakenMsg == "customer id already in the collection"
BadIdMsg == "A kert ID hibas"

\* VecPack::find_id / find_id_mut: position of the customer in the
\* collection, 0 for Err
find_id(pack, customer_id) ==
  IF \E i \in 1..Len(pack) : pack[i].customer_id = customer_id
  THEN CHOOSE i \in 1..Len(pack) :
         /\ pack[i].customer_id = customer_id
         /\ \A j \in 1..(i-1) : pack[j].customer_id # customer_id
  ELSE 0

\* string_to_uuid: the request carries ids as strings; Malformed stands for
\* every string Uuid::from_str rejects, any other value for the string form
\* of that id
string_to_uuid(id) ==
  IF id = Malformed THEN [res |-> BadIdMsg, val |-> 0] ELSE [res |-> "Ok", val |-> id]

NoRequest == [customer_id |-> 0, target |-> 0, discount_percentage |-> 0, created_by |-> 0]

IdleTask == [pc |-> "idle", r |-> NoRequest, unknown |-> FALSE,
             new_customer |-> <<>>, res |-> "", resp |-> <<>>]

\* the record of the call just made on the collection: what was asked, the
\* customer before the call (<<>> when there was none) and the answer; undo
\* is <<b>> when the call is a remove_purchase of the purchase that the call
\* right before it appended to the same commitment, whose balance was b
\* before that; the record is forgotten when the clock moves on
NoCall == [op |-> "none", customer_id |-> 0, commitment_id |-> 0, purchase_id |-> 0,
           discount_percentage |-> 0, pre |-> <<>>, res |-> "", path |-> <<>>,
           undo |-> <<>>]

Snapshot(pack, customer_id) ==
  IF find_id(pack, customer_id) = 0 THEN <<>> ELSE <<pack[find_id(pack, customer_id)]>>

Init ==
  /\ commitments = <<>>
  /\ now = 0
  /\ next_uuid = 1
  /\ overflow_checks \in BOOLEAN
  /\ tasks = [t \in Tasks |-> IdleTask]
  /\ last = NoCall

\* the clock advances
Tick ==
  /\ now < MaxNow
  /\ now' = now + 1
  /\ last' = NoCall
  /\ UNCHANGED <<commitments, next_uuid, overflow_checks, tasks>>

\* more than a year goes by between two requests
YearPasses ==
  /\ now + TicksPerYear + 1 <= MaxNow
  /\ now' = now + TicksPerYear + 1
  /\ last' = NoCall
  /\ UNCHANGED <<commitments, next_uuid, overflow_checks, tasks>>

\* CommitmentService::add_commitment on a customer of the collection: the
\* first lock covers the lookup and Customer::add_commitment; no more than
\* max_uuid ids are drawn
AddCommitmentKnownWithin(r, max_uuid) ==
  LET i == find_id(commitments, r.customer_id)
  IN /\ i # 0
     /\ next_uuid <= max_uuid
     /\ LET c == CustomerAddCommitment(commitments[i], r.target,
                   r.discount_percentage, r.created_by, now, next_uuid)
        IN /\ commitments' = [commitments EXCEPT ![i] = c.self]
           /\ next_uuid' = IF c.res = "Ok" THEN next_uuid + 1 ELSE next_uuid
           /\ last' = [NoCall EXCEPT !.op = "add_commitment",
                         !.customer_id = r.customer_id,
                         !.discount_percentage = r.discount_percentage,
                         !.pre = <<commitments[i]>>, !.res = c.res]
     /\ UNCHANGED <<now, overflow_checks, tasks>>

AddCommitmentKnown(r) == AddCommitmentKnownWithin(r, MaxUuid)

\* CommitmentService::add_commitment for an id the collection does not hold,
\* run with no other request in between: Customer::new, VecPack::insert
AddCommitmentUnknownWithin(r, max_uuid) ==
  /\ find_id(commitments, r.customer_id) = 0
  /\ next_uuid <= max_uuid
  /\ LET c == CustomerNew(r.customer_id, r.target, r.discount_percentage,
                          r.created_by, now, next_uuid)
     IN /\ commitments' = IF c.res = "Ok" THEN Append(commitments, c.val[1])
                          ELSE commitments
        /\ next_uuid' = IF c.res = "Ok" THEN next_uuid + 1 ELSE next_uuid
        /\ last' = [NoCall EXCEPT !.op = "new", !.customer_id = r.customer_id,
                      !.discount_percentage = r.discount_percentage, !.res = c.res]
  /\ UNCHANGED <<now, overflow_checks, tasks>>

AddCommitmentUnknown(r) == AddCommitmentUnknownWithin(r, MaxUuid)

\* no balance has wrapped further than MaxWrapped below zero
BalancesWithin(cust) ==
  \A k \in 1..Len(cust.commitments) : cust.commitments[k].balance >= 0 - MaxWrapped

\* CommitmentService::add_purchase, one lock for the whole call
AddPurchase(customer_id, commitment_id, purchase_id, total_net, total_gross, applied_discount) ==
  LET i == find_id(commitments, customer_id)
      cu == string_to_uuid(commitment_id)
      pu == string_to_uuid(purchase_id)
  IN /\ i # 0
     /\ cu.res = "Ok"
     /\ pu.res = "Ok"
     /\ LET c == CustomerAddPurchase(commitments[i], cu.val,
                   PurchaseInfoNew(pu.val, total_net, total_gross, applied_discount),
                   now)
        IN /\ commitments' = [commitments EXCEPT ![i] = c.self]
           /\ last' = [NoCall EXCEPT !.op = "add_purchase", !.customer_id = customer_id,
                         !.commitment_id = cu.val, !.purchase_id = pu.val,
                         !.pre = <<commitments[i]>>, !.res = c.res]
     /\ UNCHANGED <<now, next_uuid, overflow_checks, tasks>>

\* the balance that the call before this one found on the commitment it
\* appended the purchase to, <<>> when the call before was no such append
BalanceBeforeAppend(customer_id, commitment_id, purchase_id) ==
  IF /\ last.op = "add_purchase"
     /\ last.res = "Ok"
     /\ last.customer_id = customer_id
     /\ last.commitment_id = commitment_id
     /\ last.purchase_id = purchase_id
  THEN LET c == last.pre[1].commitments[Len(last.pre[1].commitments)]
       IN IF \E e \in 1..Len(c.purchase_log) : c.purchase_log[e].purchase_id = purchase_id
          THEN <<>>
          ELSE <<c.balance>>
  ELSE <<>>

\* CommitmentService::remove_purchase, one lock for the whole call
RemovePurchase(customer_id, commitment_id, purchase_id) ==
  LET i == find_id(commitments, customer_id)
      cu == string_to_uuid(commitment_id)
      pu == string_to_uuid(purchase_id)
  IN /\ i # 0
     /\ cu.res = "Ok"
     /\ pu.res = "Ok"
     /\ LET c == CustomerRemovePurchase(commitments[i], cu.val, pu.val, overflow_checks)
        IN /\ BalancesWithin(c.self)
           /\ commitments' = [commitments EXCEPT ![i] = c.self]
           /\ last' = [NoCall EXCEPT !.op = "remove_purchase", !.customer_id = customer_id,
                         !.commitment_id = cu.val, !.purchase_id = pu.val,
                         !.pre = <<commitments[i]>>, !.res = c.res, !.path = c.path,
                         !.undo = BalanceBeforeAppend(customer_id, cu.val, pu.val)]
     /\ UNCHANGED <<now, next_uuid, overflow_checks, tasks>>

\* a request the handler turns down before it reaches the customer: the
\* customer id is not in the collection, or an id does not parse
Rejected(customer_id, commitment_id, purchase_id) ==
  /\ \/ find_id(commitments, customer_id) = 0
     \/ string_to_uuid(commitment_id).res # "Ok"
     \/ string_to_uuid(purchase_id).res # "Ok"
  /\ last' = [NoCall EXCEPT !.op = "rejected", !.customer_id = customer_id,
                !.pre = Snapshot(commitments, customer_id),
                !.res = IF find_id(commitments, customer_id) = 0
                        THEN CustomerUnknownMsg ELSE BadIdMsg]
  /\ UNCHANGED <<commitments, now, next_uuid, overflow_checks, tasks>>

\* ---- the add_commitment handler step by step, as concurrent tasks run it

\* an AddCommitmentRequest arrives and its handler task is spawned
Issue(t, r) ==
  /\ tasks[t].pc = "idle"
  /\ next_uuid + Cardinality({u \in Tasks : tasks[u].pc \in {"find", "new"}}) <= MaxUuid
  /\ tasks' = [tasks EXCEPT ![t] = [IdleTask EXCEPT !.pc = "find", !.r = r,
                                      !.unknown = (find_id(commitments, r.customer_id) = 0)]]
  /\ last' = NoCall
  /\ UNCHANGED <<commitments, now, next_uuid, overflow_checks>>

\* first lock: the customer is looked up and, when found, add_commitment
\* runs on it before the lock is released
AddCommitmentFind(t) ==
  /\ tasks[t].pc = "find"
  /\ LET r == tasks[t].r
         i == find_id(commitments, r.customer_id)
     IN IF i # 0
        THEN LET c == CustomerAddCommitment(commitments[i], r.target,
                        r.discount_percentage, r.created_by, now, next_uuid)
             IN /\ commitments' = [commitments EXCEPT ![i] = c.self]
                /\ next_uuid' = IF c.res = "Ok" THEN next_uuid + 1 ELSE next_uuid
                /\ tasks' = [tasks EXCEPT ![t].pc = "done", ![t].res = c.res,
                                          ![t].resp = IF c.res = "Ok" THEN <<c.self>> ELSE <<>>]
                /\ last' = [NoCall EXCEPT !.op = "add_commitment",
                              !.customer_id = r.customer_id,
                              !.discount_percentage = r.discount_percentage,
                              !.pre = <<commitments[i]>>, !.res = c.res]
        ELSE /\ tasks' = [tasks EXCEPT ![t].pc = "new"]
             /\ last' = NoCall
             /\ UNCHANGED <<commitments, next_uuid>>
  /\ UNCHANGED <<now, overflow_checks>>

\* no lock held: Customer::new
AddCommitmentNew(t) ==
  /\ tasks[t].pc = "new"
  /\ LET r == tasks[t].r
         c == CustomerNew(r.customer_id, r.target, r.discount_percentage,
                          r.created_by, now, next_uuid)
     IN IF c.res = "Ok"
        THEN /\ tasks' = [tasks EXCEPT ![t].pc = "insert", ![t].new_customer = c.val]
             /\ next_uuid' = next_uuid + 1
        ELSE /\ tasks' = [tasks EXCEPT ![t].pc = "done", ![t].res = c.res]
             /\ UNCHANGED next_uuid
  /\ last' = NoCall
  /\ UNCHANGED <<commitments, now, overflow_checks>>

\* second lock: VecPack::insert, which refuses an id that is already in the
\* collection
AddCommitmentInsert(t) ==
  /\ tasks[t].pc = "insert"
  /\ LET new_customer == tasks[t].new_customer[1]
     IN IF find_id(commitments, new_customer.customer_id) # 0
        THEN /\ tasks' = [tasks EXCEPT ![t].pc = "done", ![t].res = IdTakenMsg,
                                       ![t].new_customer = <<>>]
             /\ last' = NoCall
             /\ UNCHANGED commitments
        ELSE /\ commitments' = Append(commitments, new_customer)
             /\ tasks' = [tasks EXCEPT ![t].pc = "requery", ![t].new_customer = <<>>]
             /\ last' = [NoCall EXCEPT !.op = "new",
                           !.customer_id = new_customer.customer_id,
                           !.discount_percentage = tasks[t].r.discount_percentage,
                           !.res = "Ok"]
  /\ UNCHANGED <<now, next_uuid, overflow_checks>>

\* third lock: the customer is read back for the answer
AddCommitmentRequery(t) ==
  /\ tasks[t].pc = "requery"
  /\ LET i == find_id(commitments, tasks[t].r.customer_id)
     IN tasks' = [tasks EXCEPT ![t].pc = "done",
                    ![t].res = IF i = 0 THEN CustomerUnknownMsg ELSE "Ok",
                    ![t].resp = IF i = 0 THEN <<>> ELSE <<commitments[i]>>]
  /\ last' = NoCall
  /\ UNCHANGED <<commitments, now, next_uuid, overflow_checks>>

\* the answer of a finished handler is sent and the task ends
Retire(t) ==
  /\ tasks[t].pc = "done"
  /\ tasks' = [tasks EXCEPT ![t] = IdleTask]
  /\ last' = NoCall
  /\ UNCHANGED <<commitments, now, next_uuid, overflow_checks>>

\* ------------------------------------------------------- specifications
Requests ==
  [customer_id : CustomerIds, target : Targets,
   discount_percentage : Discounts, created_by : Users]

WideRequests ==
  [customer_id : CustomerIds, target : Targets,
   discount_percentage : WideDiscounts, created_by : Users]

SvcRequests ==
  [customer_id : SvcCustomerIds, target : Targets,
   discount_percentage : SvcDiscounts, created_by : Users]

\* requests served one at a time
Next ==
  \/ Tick
  \/ \E r \in Requests : AddCommitmentKnown(r)
  \/ \E r \in Requests : AddCommitmentUnknown(r)
  \/ \E c \in CustomerIds, k \in CommitmentIdInputs, q \in PurchaseRequests :
        AddPurchase(c, k, q.purchase_id, q.total_net, q.total_gross, q.applied_discount)
  \/ \E c \in CustomerIds, k \in CommitmentIdInputs, p \in PurchaseIds :
        RemovePurchase(c, k, p)

Spec == Init /\ [][Next]_vars

\* requests served one at a time, with the clock going on by more than a
\* year at a time
NextLedger ==
  \/ YearPasses
  \/ \E r \in Requests : AddCommitmentKnown(r)
  \/ \E r \in Requests : AddCommitmentUnknown(r)
  \/ \E c \in CustomerIds, k \in CommitmentIdInputs, q \in PurchaseRequests :
        AddPurchase(c, k, q.purchase_id, q.total_net, q.total_gross, q.applied_discount)
  \/ \E c \in CustomerIds, k \in CommitmentIdInputs, p \in PurchaseIds :
        RemovePurchase(c, k, p)

SpecLedger == Init /\ [][NextLedger]_vars

\* commitment creation over the whole range of discount inputs
NextNew ==
  \/ Tick
  \/ \E r \in WideRequests : AddCommitmentKnown(r)
  \/ \E r \in WideRequests : AddCommitmentUnknown(r)

SpecNew == Init /\ [][NextNew]_vars

\* requests served one at a time, about one purchase and over one more
\* commitment than Spec draws, so that a chain of withdrawals has inner links
ChainRequests ==
  [customer_id : CustomerIds, target : Targets,
   discount_percentage : Discounts, created_by : Users]

NextChain ==
  \/ Tick
  \/ \E r \in ChainRequests : AddCommitmentKnownWithin(r, MaxChainUuid)
  \/ \E r \in ChainRequests : AddCommitmentUnknownWithin(r, MaxChainUuid)
  \/ \E c \in CustomerIds, k \in ChainIdInputs, q \in ChainPurchaseRequests :
        AddPurchase(c, k, q.purchase_id, q.total_net, q.total_gross, q.applied_discount)
  \/ \E c \in CustomerIds, k \in ChainIdInputs, q \in ChainPurchaseRequests :
        RemovePurchase(c, k, q.purchase_id)

SpecChain == Init /\ [][NextChain]_vars

\* requests served by concurrent handler tasks
NextSvc ==
  \/ Tick
  \/ \E t \in Tasks, r \in SvcRequests : Issue(t, r)
  \/ \E t \in Tasks : AddCommitmentFind(t)
  \/ \E t \in Tasks : AddCommitmentNew(t)
  \/ \E t \in Tasks : AddCommitmentInsert(t)
  \/ \E t \in Tasks : AddCommitmentRequery(t)
  \/ \E t \in Tasks : Retire(t)
  \/ \E c \in SvcCustomerIds, k \in CommitmentIdInputs, q \in SvcPurchaseRequests :
        AddPurchase(c, k, q.purchase_id, q.total_net, q.total_gross, q.applied_discount)
  \/ \E c \in SvcCustomerIds, k \in CommitmentIdInputs, q \in SvcPurchaseRequests :
        RemovePurchase(c, k, q.purchase_id)
  \/ \E c \in SvcCustomerIds \cup {2}, k \in {1, Malformed}, p \in {101, Malformed} :
        Rejected(c, k, p)

SpecSvc == Init /\ [][NextSvc]_vars

\* ----------------------------------------------------------- properties
\* the customer the last call was made on, as it is now
Post == Snapshot(commitments, last.customer_id)

CustomerOps == {"new", "add_commitment", "add_purchase", "remove_purchase"}

\* positions of the commitments of cust that are active at time t
ActivePositions(cust, t) ==
  {k \in 1..Len(cust.commitments) :
     /\ cust.commitments[k].status.kind = "Valid"
     /\ t <= cust.commitments[k].valid_till}

\* sum of the gross amounts of the entries of log not flagged removed
RECURSIVE SumNotRemoved(_)
SumNotRemoved(log) ==
  IF log = <<>> THEN 0
  ELSE (IF log[1].removed THEN 0 ELSE log[1].total_gross) + SumNotRemoved(Tail(log))

\* positions of the commitments of cust with the id
PositionsOf(cust, commitment_id) ==
  {k \in 1..Len(cust.commitments) : cust.commitments[k].commitment_id = commitment_id}

\* the log holds an entry with the purchase id
InLog(log, purchase_id) == \E i \in 1..Len(log) : log[i].purchase_id = purchase_id

\* C1: at every moment a customer has at most one commitment that is active,
\* and an active commitment is the last element of the customer's list.
C1_SingleActiveIsLast ==
  \A i \in 1..Len(commitments) :
     LET act == ActivePositions(commitments[i], now)
     IN /\ Cardinality(act) <= 1
        /\ \A k \in act : k = Len(commitments[i].commitments)

\* a customer whose first commitment ran out without being withdrawn and
\* whose second commitment is the active one
C1_Witness ==
  \E i \in 1..Len(commitments) :
     /\ Len(commitments[i].commitments) >= 2
     /\ commitments[i].commitments[1].status.kind = "Valid"
     /\ ActivePositions(commitments[i], now) = {Len(commitments[i].commitments)}

\* C2: for every commitment of every customer the balance is the sum of the
\* gross amounts of its ledger entries that are not flagged removed.
C2_BalanceIsSumOfLive ==
  \A i \in 1..Len(commitments) :
     \A k \in 1..Len(commitments[i].commitments) :
        commitments[i].commitments[k].balance =
          SumNotRemoved(commitments[i].commitments[k].purchase_log)

\* C3: add_commitment with a valid discount on a customer with the active
\* commitment A appends exactly one commitment B, leaves A Withdrawn with
\* successor B.id, B is Valid and B's balance and ledger are A's (flagged
\* entries included).
C3_WithdrawCarriesForward ==
  (/\ last.op = "add_commitment"
   /\ last.discount_percentage <= 6
   /\ ActivePositions(last.pre[1], now) # {})
  => /\ last.res = "Ok"
     /\ Post # <<>>
     /\ LET pre == last.pre[1].commitments
            post == Post[1].commitments
            a == Len(pre)
        IN /\ Len(post) = a + 1
           /\ \A k \in 1..(a-1) : post[k] = pre[k]
           /\ post[a] = [pre[a] EXCEPT !.status = Withdrawn(post[a+1].commitment_id)]
           /\ \A k \in 1..a : post[k].commitment_id # post[a+1].commitment_id
           /\ post[a+1].status = Valid
           /\ post[a+1].balance = pre[a].balance
           /\ post[a+1].purchase_log = pre[a].purchase_log

\* an active commitment whose ledger holds a live and a flagged entry has
\* just been withdrawn
C3_Witness ==
  /\ last.op = "add_commitment"
  /\ last.res = "Ok"
  /\ ActivePositions(last.pre[1], now) # {}
  /\ LET log == last.pre[1].commitments[Len(last.pre[1].commitments)].purchase_log
     IN /\ \E e \in 1..Len(log) : log[e].removed
        /\ \E e \in 1..Len(log) : ~log[e].removed

\* the call named the customer's last commitment while it was active
NamedActiveLast ==
  /\ last.pre # <<>>
  /\ Len(last.pre[1].commitments) \in ActivePositions(last.pre[1], now)
  /\ last.pre[1].commitments[Len(last.pre[1].commitments)].commitment_id = last.commitment_id

\* C4: add_purchase on the active last commitment with a purchase id its
\* ledger already holds (removed or not) answers the caller with the
\* duplicate error and leaves the customer as it was.
C4_DuplicateIsReported ==
  (/\ last.op = "add_purchase"
   /\ NamedActiveLast
   /\ InLog(last.pre[1].commitments[Len(last.pre[1].commitments)].purchase_log,
            last.purchase_id))
  => /\ last.res = DuplicateMsg
     /\ Post = last.pre

\* C5: add_purchase answers not-found when the commitment id is not in the
\* customer's list; otherwise a state conflict when there is no active
\* commitment or the id is not the active last one; Ok only for the active
\* last commitment.
C5_AddPurchaseOutcome ==
  last.op = "add_purchase"
  => IF PositionsOf(last.pre[1], last.commitment_id) = {}
     THEN last.res = NotUnderCustomerMsg
     ELSE IF NamedActiveLast
     THEN last.res = "Ok"
     ELSE IF ActivePositions(last.pre[1], now) = {}
     THEN last.res = NoActiveMsg
     ELSE last.res = SupersededMsg

\* add_purchase has just been refused with the state conflict for a
\* commitment of the customer that was withdrawn and has a successor
C5_Witness ==
  /\ last.op = "add_purchase"
  /\ last.res = SupersededMsg
  /\ \E k \in PositionsOf(last.pre[1], last.commitment_id) :
        last.pre[1].commitments[k].status.kind = "Withdrawn"

\* C6: after a successful remove_purchase every commitment of the customer
\* whose ledger holds the purchase id has that entry flagged removed.
C6_RemovedEverywhere ==
  (last.op = "remove_purchase" /\ last.res = "Ok")
  => \A k \in 1..Len(Post[1].commitments) :
        \A e \in 1..Len(Post[1].commitments[k].purchase_log) :
           Post[1].commitments[k].purchase_log[e].purchase_id = last.purchase_id
           => Post[1].commitments[k].purchase_log[e].removed

\* C7: a Customer operation that answers with an error leaves the customer
\* exactly as it was before the call.
C7_ErrorChangesNothing ==
  (last.op \in CustomerOps /\ last.res \notin {"Ok", Panic})
  => Post = last.pre

\* add_commitment with a discount above 6 has just been refused on a
\* customer that has an active commitment
C7_Witness ==
  /\ last.op = "add_commitment"
  /\ last.res = ValidationMsg
  /\ ActivePositions(last.pre[1], now) # {}

\* C8: two add_commitment requests for the same customer id, both arrived
\* while the id was unknown, both with a valid discount: both are answered
\* Ok and the customer holds two commitments, the first (unless it ran out
\* meanwhile) Withdrawn with the second as successor.
C8_ConcurrentCreateSerializes ==
  \A t \in Tasks, u \in Tasks :
     (/\ t # u
      /\ tasks[t].pc = "done" /\ tasks[u].pc = "done"
      /\ tasks[t].unknown /\ tasks[u].unknown
      /\ tasks[t].r.customer_id = tasks[u].r.customer_id
      /\ tasks[t].r.discount_percentage <= 6
      /\ tasks[u].r.discount_percentage <= 6)
     => /\ tasks[t].res = "Ok"
        /\ tasks[u].res = "Ok"
        /\ LET c == Snapshot(commitments, tasks[t].r.customer_id)
           IN /\ c # <<>>
              /\ Len(c[1].commitments) = 2
              /\ c[1].commitments[1].valid_till >= now
                 => c[1].commitments[1].status =
                      Withdrawn(c[1].commitments[2].commitment_id)

\* C9: creating a commitment (for a new customer, as a fresh commitment or
\* as the successor of a withdrawal) succeeds for the discounts 0..6 and is
\* refused with the validation error for every other discount.
C9_DiscountRange ==
  last.op \in {"new", "add_commitment"}
  => /\ last.discount_percentage \in 0..6 => last.res = "Ok" /\ Post # <<>>
     /\ last.discount_percentage \notin 0..6 => last.res = ValidationMsg

\* the active commitment has just been withdrawn for a successor with
\* discount 6
C9_Witness ==
  /\ last.op = "add_commitment"
  /\ last.discount_percentage = 6
  /\ last.res = "Ok"
  /\ ActivePositions(last.pre[1], now) # {}
  /\ Len(Post[1].commitments) = Len(last.pre[1].commitments) + 1
  /\ Post[1].commitments[Len(Post[1].commitments)].discount_percentage = 6

\* C10: add_purchase of a purchase new to the ledger of the active
\* commitment, followed at once by remove_purchase of the same id, leaves the
\* balance as it was before the add, with the entry in the ledger flagged
\* removed.
C10_AddThenRemove ==
  (last.op = "remove_purchase" /\ last.undo # <<>> /\ last.res = "Ok")
  => LET after == Post[1].commitments[Len(last.pre[1].commitments)]
     IN /\ after.balance = last.undo[1]
        /\ \E e \in 1..Len(after.purchase_log) :
              /\ after.purchase_log[e].purchase_id = last.purchase_id
              /\ after.purchase_log[e].removed

\* a purchase has just been removed right after it was added to a commitment
\* that already had a balance
C10_Witness ==
  /\ last.op = "remove_purchase"
  /\ last.res = "Ok"
  /\ last.undo # <<>>
  /\ last.undo[1] > 0

\* the commitments of the customer with the id in the collection pack, <<>>
\* when the collection does not hold the customer
CommitmentsOf(pack, customer_id) ==
  IF Snapshot(pack, customer_id) = <<>> THEN <<>>
  ELSE Snapshot(pack, customer_id)[1].commitments

\* C11: a commitment made at clock time t, with a new customer, by
\* add_commitment on a customer with no active commitment or as the successor
\* of a withdrawal, runs out at the start of the year after the year of t, and
\* no step changes the valid_till of a commitment that is in a list already;
\* so a successor does not take the valid_till of the commitment it replaces.
C11_ValidTillFromCreationYear ==
  [][\A id \in CustomerIds :
       LET old == CommitmentsOf(commitments, id)
           new == CommitmentsOf(commitments', id)
       IN \A k \in 1..Len(new) :
             new[k].valid_till = IF k <= Len(old) THEN old[k].valid_till
                                 ELSE StartOfYear(YearOf(now) + 1)]_vars

\* a commitment has just been withdrawn in the year after the one it was
\* made in, and its successor runs out a year later than it does
C11_Witness ==
  /\ last.op = "add_commitment"
  /\ last.res = "Ok"
  /\ ActivePositions(last.pre[1], now) # {}
  /\ LET post == Post[1].commitments
         a == Len(last.pre[1].commitments)
     IN /\ Len(post) = a + 1
        /\ post[a].status.kind = "Withdrawn"
        /\ post[a].valid_till = StartOfYear(YearOf(now))
        /\ post[a+1].valid_till = StartOfYear(YearOf(now) + 1)

\* the positions that following the successor ids from position k of cust
\* passes, up to the first commitment that is not Withdrawn; fuel bounds the
\* number of links followed
RECURSIVE SuccessorWalk(_, _, _)
SuccessorWalk(cust, k, fuel) ==
  LET c == cust.commitments[k]
  IN IF c.status.kind # "Withdrawn" \/ fuel = 0
     THEN <<k>>
     ELSE LET next == PositionsOf(cust, c.status.successor)
          IN IF next = {} THEN <<k>>
             ELSE <<k>> \o SuccessorWalk(cust, CHOOSE j \in next : TRUE, fuel - 1)

\* commitment c with the entry of the purchase id flagged removed and its
\* gross amount taken off the balance
FlaggedAndDecremented(c, purchase_id) ==
  LET e == FindPurchase(c.purchase_log, purchase_id)
  IN [c EXCEPT !.purchase_log[e] = [@ EXCEPT !.removed = TRUE],
               !.balance = @ - c.purchase_log[e].total_gross]

\* the call before this state was remove_purchase naming a commitment of the
\* customer that was Withdrawn
RemoveNamedWithdrawn ==
  /\ last.op = "remove_purchase"
  /\ PositionsOf(last.pre[1], last.commitment_id) # {}
  /\ \A k \in PositionsOf(last.pre[1], last.commitment_id) :
        last.pre[1].commitments[k].status.kind = "Withdrawn"

\* C12: remove_purchase(c, p) with c Withdrawn walks the successor chain from
\* c to the first Valid commitment; every commitment on the walk whose ledger
\* holds p has the entry flagged and the gross amount taken off its balance, a
\* miss at a Withdrawn link is passed over, nothing else changes, and the
\* result is success when the Valid commitment at the end holds p and
\* not-found when it does not.
C12_WalkToValid ==
  RemoveNamedWithdrawn
  => LET pre == last.pre[1].commitments
         post == Post[1].commitments
         c == CHOOSE k \in PositionsOf(last.pre[1], last.commitment_id) : TRUE
         walk == SuccessorWalk(last.pre[1], c, Len(pre))
         end == walk[Len(walk)]
     IN /\ last.path = walk
        /\ pre[end].status.kind = "Valid"
        /\ Len(post) = Len(pre)
        /\ \A k \in 1..Len(pre) :
              post[k] = IF /\ \E w \in 1..Len(walk) : walk[w] = k
                           /\ InLog(pre[k].purchase_log, last.purchase_id)
                        THEN FlaggedAndDecremented(pre[k], last.purchase_id)
                        ELSE pre[k]
        /\ last.res = IF InLog(pre[end].purchase_log, last.purchase_id)
                      THEN "Ok" ELSE PurchaseNotFoundMsg

\* C13: every Withdrawn{successor} names the id of exactly one commitment,
\* which stands later in the same customer's list; no two commitments name
\* the same successor, following the successors from any commitment passes no
\* commitment twice and ends at a commitment with status Valid.
C13_ForwardChain ==
  \A i \in 1..Len(commitments) :
     LET cs == commitments[i].commitments
         withdrawn == {k \in 1..Len(cs) : cs[k].status.kind = "Withdrawn"}
     IN /\ \A k \in withdrawn :
              /\ Cardinality(PositionsOf(commitments[i], cs[k].status.successor)) = 1
              /\ \A j \in PositionsOf(commitments[i], cs[k].status.successor) : j > k
        /\ \A k \in withdrawn, j \in withdrawn :
              cs[k].status.successor = cs[j].status.successor => k = j
        /\ \A k \in 1..Len(cs) :
              LET walk == SuccessorWalk(commitments[i], k, Len(cs))
              IN /\ \A a \in 1..Len(walk), b \in 1..Len(walk) : walk[a] = walk[b] => a = b
                 /\ cs[walk[Len(walk)]].status.kind = "Valid"

\* a customer with a chain of two withdrawals: the first commitment names the
\* second, the second names the third, the third is Valid
C13_Witness ==
  \E i \in 1..Len(commitments) :
     LET cs == commitments[i].commitments
     IN /\ Len(cs) >= 3
        /\ cs[1].status.kind = "Withdrawn"
        /\ cs[2].status.kind = "Withdrawn"
        /\ cs[1].status.successor = cs[2].commitment_id
        /\ cs[2].status.successor = cs[3].commitment_id
        /\ cs[3].status.kind = "Valid"

\* C14: a commitment that has been withdrawn is never active again: in every
\* step a Withdrawn commitment keeps its status, successor id included, and
\* is_active is false for it at the clock time after the step, also while
\* that time is not past its valid_till.
C14_WithdrawnForGood ==
  [][\A id \in CustomerIds :
       LET old == CommitmentsOf(commitments, id)
           new == CommitmentsOf(commitments', id)
       IN /\ \A k \in 1..Len(old) :
               old[k].status.kind = "Withdrawn"
               => k <= Len(new) /\ new[k].status = old[k].status
          /\ \A k \in 1..Len(new) :
               new[k].status.kind = "Withdrawn" => ~is_active(new[k], now')]_vars

\* remove_purchase has just gone through a commitment that was withdrawn
\* before the call and has not run out, and has flagged an entry in it
C14_Witness ==
  /\ last.op = "remove_purchase"
  /\ Len(last.path) >= 2
  /\ LET before == last.pre[1].commitments[last.path[1]]
         after == Post[1].commitments[last.path[1]]
     IN /\ before.status.kind = "Withdrawn"
        /\ now <= before.valid_till
        /\ after # before
        /\ after.status = before.status

\* the call before this state was remove_purchase naming a commitment of the
\* customer that was Valid, so that it was one Commitment::remove_purchase
RemoveNamedValid ==
  /\ last.op = "remove_purchase"
  /\ PositionsOf(last.pre[1], last.commitment_id) # {}
  /\ \A k \in PositionsOf(last.pre[1], last.commitment_id) :
        last.pre[1].commitments[k].status.kind = "Valid"

\* C15: Commitment::remove_purchase answers not-found only when no entry of
\* the ledger has the id, and then changes nothing; whenever an entry has the
\* id, flagged removed or not, it succeeds, flags the entry and takes the
\* gross amount off the balance, a second time when the call is repeated.
C15_RemoveSubtractsAgain ==
  RemoveNamedValid
  => LET k == CHOOSE j \in PositionsOf(last.pre[1], last.commitment_id) : TRUE
         before == last.pre[1].commitments[k]
         after == Post[1].commitments[k]
     IN IF InLog(before.purchase_log, last.purchase_id)
        THEN /\ last.res = "Ok"
             /\ after = FlaggedAndDecremented(before, last.purchase_id)
        ELSE /\ last.res = PurchaseNotFoundMsg
             /\ after = before

\* ledger new holds every entry of ledger old at its place, with the same
\* id and amounts, and with the removed flag set if it was set
LedgerGrown(old, new) ==
  /\ Len(new) >= Len(old)
  /\ \A e \in 1..Len(old) :
        /\ new[e].purchase_id = old[e].purchase_id
        /\ new[e].total_net = old[e].total_net
        /\ new[e].total_gross = old[e].total_gross
        /\ new[e].applied_discount = old[e].applied_discount
        /\ old[e].removed => new[e].removed

\* C16: every call leaves the customer's commitment list with its elements
\* at their places, with their id, target, discount percentage and
\* valid_till, and may add more at the end; it leaves the ledger of each
\* commitment with its entries at their places, with their id and amounts,
\* and may add more at the end; no removed flag goes from true back to false.
C16_AppendOnly ==
  last.op \in CustomerOps
  => LET old == IF last.pre = <<>> THEN <<>> ELSE last.pre[1].commitments
         new == CommitmentsOf(commitments, last.customer_id)
     IN /\ Len(new) >= Len(old)
        /\ \A k \in 1..Len(old) :
              /\ new[k].commitment_id = old[k].commitment_id
              /\ new[k].target = old[k].target
              /\ new[k].discount_percentage = old[k].discount_percentage
              /\ new[k].valid_till = old[k].valid_till
              /\ LedgerGrown(old[k].purchase_log, new[k].purchase_log)

\* the customer has two commitments, the ledger of the second has grown
\* past the copy it started from, and remove_purchase has just flagged an
\* entry of it that was flagged already
C16_Witness ==
  /\ last.op = "remove_purchase"
  /\ last.res = "Ok"
  /\ Len(Post[1].commitments) = 2
  /\ Len(Post[1].commitments[2].purchase_log) > Len(Post[1].commitments[1].purchase_log)
  /\ Len(Post[1].commitments[1].purchase_log) > 0
  /\ LET log == last.pre[1].commitments[2].purchase_log
     IN \E e \in 1..Len(log) : log[e].purchase_id = last.purchase_id /\ log[e].removed

\* the call before this state was add_commitment with a discount in range on
\* a customer of the collection that had no active commitment
AddCommitmentWithoutActive ==
  /\ last.op = "add_commitment"
  /\ last.discount_percentage <= 6
  /\ ActivePositions(last.pre[1], now) = {}

\* C17: add_commitment with a valid discount on a customer with no active
\* commitment, whose last commitment is then Valid and has run out, appends
\* one commitment with a new id, status Valid, balance 0 and an empty ledger;
\* every commitment the customer had, the one that ran out included, is as
\* it was: still Valid, with its balance and ledger.
C17_FreshAfterExpiry ==
  AddCommitmentWithoutActive
  => /\ last.res = "Ok"
     /\ LET pre == last.pre[1].commitments
            post == Post[1].commitments
            a == Len(pre)
        IN /\ a >= 1
           /\ pre[a].status = Valid
           /\ pre[a].valid_till < now
           /\ Len(post) = a + 1
           /\ \A k \in 1..a : post[k] = pre[k]
           /\ \A k \in 1..a : post[k].commitment_id # post[a+1].commitment_id
           /\ post[a+1].status = Valid
           /\ post[a+1].balance = 0
           /\ post[a+1].purchase_log = <<>>

\* a commitment with a purchase in its ledger and a balance has run out, and
\* add_commitment has just been served
C17_Witness ==
  /\ AddCommitmentWithoutActive
  /\ last.res = "Ok"
  /\ LET pre == last.pre[1].commitments
     IN /\ pre[Len(pre)].balance > 0
        /\ pre[Len(pre)].purchase_log # <<>>

\* C18: within the ledger of each commitment no two entries have the same
\* purchase id, whether the ledger was filled by add_purchase or copied at a
\* withdrawal, and whether the entries are flagged removed or not.
C18_LedgerIdsUnique ==
  \A i \in 1..Len(commitments) :
     \A k \in 1..Len(commitments[i].commitments) :
        LET log == commitments[i].commitments[k].purchase_log
        IN \A a \in 1..Len(log), b \in 1..Len(log) :
              log[a].purchase_id = log[b].purchase_id => a = b

\* add_purchase has just been called, on the active commitment that took its
\* ledger over at a withdrawal, with the id of an entry that is in that
\* ledger and flagged removed
C18_Witness ==
  /\ last.op = "add_purchase"
  /\ NamedActiveLast
  /\ Len(last.pre[1].commitments) >= 2
  /\ LET log == last.pre[1].commitments[Len(last.pre[1].commitments)].purchase_log
         copied == last.pre[1].commitments[Len(last.pre[1].commitments) - 1].purchase_log
     IN /\ Len(log) >= 2
        /\ copied # <<>>
        /\ \E e \in 1..Len(log) :
              log[e].purchase_id = last.purchase_id /\ log[e].removed

\* C19: a successful Customer::add_purchase changes the last commitment of
\* the customer only: it appends one entry, with the purchase id of the call
\* and not flagged removed, to its ledger and adds the entry's gross amount to
\* its balance; the list keeps its length, every other commitment and every
\* status stay as they were, and so does every other customer.
C19_AddPurchaseFrame ==
  [][(last'.op = "add_purchase" /\ last'.res = "Ok")
     => \A id \in CustomerIds :
          LET old == CommitmentsOf(commitments, id)
              new == CommitmentsOf(commitments', id)
              n == Len(old)
          IN IF id # last'.customer_id
             THEN new = old
             ELSE /\ Len(new) = n
                  /\ \A k \in 1..(n - 1) : new[k] = old[k]
                  /\ LET log == new[n].purchase_log
                         e == log[Len(log)]
                     IN /\ log = Append(old[n].purchase_log, e)
                        /\ e.purchase_id = last'.purchase_id
                        /\ ~e.removed
                        /\ new[n] = [old[n] EXCEPT !.purchase_log = log,
                                                   !.balance = @ + e.total_gross]]_vars

\* C20: Customer::remove_purchase comes to an end for every commitment id and
\* purchase id: the recursion over the successors visits no commitment
\* twice, takes no more steps than the list has elements, and ends at a Valid
\* commitment or with a not-found error.
C20_RemoveTerminates ==
  last.op = "remove_purchase"
  => LET pre == last.pre[1].commitments
         n == Len(last.path)
     IN /\ \A a \in 1..n, b \in 1..n : last.path[a] = last.path[b] => a = b
        /\ \A a \in 1..n : last.path[a] \in 1..Len(pre)
        /\ n <= Len(pre)
        /\ \/ n >= 1 /\ pre[last.path[n]].status.kind = "Valid"
           \/ last.res \in {CommitmentNotFoundMsg, PurchaseNotFoundMsg}

\* every purchase id in the ledger of a Withdrawn commitment of cust is in
\* the ledger of the commitment it names as successor
LedgerInSuccessor(cust) ==
  \A k \in 1..Len(cust.commitments) :
     cust.commitments[k].status.kind = "Withdrawn"
     => \A j \in PositionsOf(cust, cust.commitments[k].status.successor) :
           \A e \in 1..Len(cust.commitments[k].purchase_log) :
              InLog(cust.commitments[j].purchase_log,
                    cust.commitments[k].purchase_log[e].purchase_id)

\* C21: every purchase id in the ledger of a withdrawn commitment is in the
\* ledger of its successor, and a remove_purchase that names a Withdrawn
\* commitment and answers not-found has changed nothing: no entry is flagged
\* and no balance decremented anywhere on the walk.
C21_NotFoundChangedNothing ==
  /\ \A i \in 1..Len(commitments) : LedgerInSuccessor(commitments[i])
  /\ (/\ RemoveNamedWithdrawn
      /\ last.res \in {PurchaseNotFoundMsg, CommitmentNotFoundMsg})
     => Post = last.pre

\* remove_purchase has just walked from a Withdrawn commitment to a Valid one
\* whose ledger holds another purchase, and has answered not-found
C21_Witness ==
  /\ RemoveNamedWithdrawn
  /\ last.res = PurchaseNotFoundMsg
  /\ Len(last.path) >= 2
  /\ last.pre[1].commitments[last.path[1]].purchase_log # <<>>
  /\ last.pre[1].commitments[last.path[Len(last.path)]].purchase_log # <<>>

\* C22: remove_purchase never takes a gross amount off a balance that is
\* smaller: no balance has wrapped below zero and no call has ended in the
\* arithmetic panic, also when the same purchase id is removed again or
\* through a chain of successors.
C22_NoUnderflow ==
  /\ \A i \in 1..Len(commitments) :
        \A k \in 1..Len(commitments[i].commitments) :
           commitments[i].commitments[k].balance >= 0
  /\ last.res # Panic
====
